---- MODULE Spec2Model ----
(* Model of the xtractor backend relay (src/index.js): the /webhook handler *)
(* that maps Polar subscription events to Clerk user metadata, and the       *)
(* authenticated endpoints /test-auth, /api/create-portal-session and        *)
(* /create-checkout.  Every await of a handler is a separate step, so that   *)
(* concurrent deliveries interleave exactly where the event loop lets them.  *)
EXTENDS Integers, FiniteSets, Sequences, TLC

VARIABLES metadata, wh, api

vars == <<metadata, wh, api>>

(* ---------------------------------------------------------------- bounds *)
\* number of webhook deliveries that may be in flight at the same time
NSlots == 2

Slots == 1..NSlots

(* ------------------------------------------------------- value universes *)
\* JavaScript undefined / a missing property / getAuth without a session
Undefined == "undefined"

\* JavaScript {} ; objects are functions from their keys to their values
EmptyObj == <<>>

Users == {"u1", "u2"}

\* subscription objects a verified event can carry (id, customerId)
Subscriptions == {[id |-> "s1", customerId |-> "c1"], [id |-> "s2", customerId |-> "c2"]}

EventTypes == {"subscription.active", "subscription.revoked", "order.created"}

\* checkout references an event can carry; Undefined is a null checkoutId
CheckoutIds == {"k1", "k2", "k3", "k4"}

\* what validateEvent does with the raw body, the headers and the secret
ValidateOutcomes == {"event", "WebhookVerificationError", "Error"}

(* ------------------------------------------------------- object helpers *)
\* { ...a, ...b }
Spread(a, b) == [k \in (DOMAIN a) \cup (DOMAIN b) |-> IF k \in DOMAIN b THEN b[k] ELSE a[k]]

\* o.k for a string-valued property, undefined when the property is missing
Prop(o, k) == IF k \in DOMAIN o THEN o[k] ELSE Undefined

\* a || b on string-or-undefined values (the strings of the model are non-empty)
OrElse(a, b) == IF a # Undefined THEN a ELSE b

(* ------------------------------------------------- the Payments Provider *)
\* the checkout sessions polar.checkouts.get can return: k1 and k3 were
\* created by /create-checkout for u1 and u2, k2 carries customerMetadata
\* without an identity, k4 carries no customerMetadata at all
CheckoutStore == [k1 |-> [id |-> "k1", customerMetadata |-> [clerk_user_id |-> "u1"]], k2 |-> [id |-> "k2", customerMetadata |-> [ref |-> "r1"]], k3 |-> [id |-> "k3", customerMetadata |-> [clerk_user_id |-> "u2"]], k4 |-> [id |-> "k4"]]

\* checkout.customerMetadata?.clerk_user_id
ClerkUserIdOf(checkout) == IF "customerMetadata" \in DOMAIN checkout THEN Prop(checkout.customerMetadata, "clerk_user_id") ELSE Undefined

(* ------------------------------------------------- the Identity Provider *)
\* The user store is the Identity Provider's; the handlers only call it.
\* How it applies updateUserMetadata(id, {publicMetadata}) is an input of the
\* step in which the call settles: it merges, or it overwrites.
StoreBehaviours == {"merge", "overwrite"}

\* the store keeps the stored keys that publicMetadata does not name
MergeStored(stored, publicMetadata) == Spread(stored, publicMetadata)

\* the store keeps nothing but publicMetadata
OverwriteStored(stored, publicMetadata) == publicMetadata

\* what the user store holds after updateUserMetadata(id, {publicMetadata})
UpdateUserMetadata(stored, publicMetadata, store) == IF store = "merge" THEN MergeStored(stored, publicMetadata) ELSE OverwriteStored(stored, publicMetadata)

(* ------------------------------------------------------ webhook handler *)
\* variant: the payload lacks the customer id
ActivePayload_NoCustomer(subscription) == [subscriptionId |-> subscription.id, plan |-> "pro", status |-> "active"]

\* publicMetadata of the subscription.active branch
ActivePayload(subscription) == [subscriptionId |-> subscription.id, customerId |-> subscription.customerId, plan |-> "pro", status |-> "active"]

\* variant: the event's subscription id always wins
RevokedPayload_EventId(currentMetadata, subscription) == Spread(currentMetadata, [subscriptionId |-> subscription.id, customerId |-> subscription.customerId, plan |-> "free", status |-> "revoked"])

\* variant: the plan is not reset
RevokedPayload_NoPlan(currentMetadata, subscription) == Spread(currentMetadata, [subscriptionId |-> OrElse(Prop(currentMetadata, "subscriptionId"), subscription.id), customerId |-> subscription.customerId, status |-> "revoked"])

\* publicMetadata of the subscription.revoked branch
RevokedPayload(currentMetadata, subscription) == Spread(currentMetadata, [subscriptionId |-> OrElse(Prop(currentMetadata, "subscriptionId"), subscription.id), customerId |-> subscription.customerId, plan |-> "free", status |-> "revoked"])

\* variant: every error is an internal error
CatchStatus_NoInstanceCheck(error) == 500

\* variant: processing errors are swallowed and the event is acknowledged
CatchStatus_Swallow(error) == IF error = "WebhookVerificationError" THEN 403 ELSE 202

\* the catch block of the webhook handler
CatchStatus(error) == IF error = "WebhookVerificationError" THEN 403 ELSE 500

IdleSlot == [pc |-> "idle", type |-> Undefined, subscription |-> EmptyObj, checkoutId |-> Undefined, clerkUserId |-> Undefined, currentMetadata |-> EmptyObj, payload |-> EmptyObj, error |-> Undefined, status |-> 0, calls |-> {}]

\* res.status(202).send("") / the catch block: the handler is over
\* (the event and the locals of the activation are dropped with it)
Respond(s, error) == [s EXCEPT !.pc = "done", !.error = error, !.status = IF error = Undefined THEN 202 ELSE CatchStatus(error), !.subscription = EmptyObj, !.checkoutId = Undefined, !.currentMetadata = EmptyObj, !.payload = EmptyObj]

\* variant: the event type is not looked at
NeedsCheckout_AnyType(type, checkoutId) == checkoutId # Undefined

\* does the handler reach polar.checkouts.get for this event?
NeedsCheckout(type, checkoutId) == type \in {"subscription.active", "subscription.revoked"} /\ checkoutId # Undefined

\* the synchronous prefix of the handler: validateEvent and the dispatch on
\* event.type, up to the first await or the response
WebhookEntry(outcome, type, subscription, checkoutId) == IF outcome # "event" THEN Respond(IdleSlot, outcome) ELSE LET s == [IdleSlot EXCEPT !.type = type, !.subscription = subscription, !.checkoutId = checkoutId] IN IF NeedsCheckout(type, checkoutId) THEN [s EXCEPT !.pc = "checkouts.get", !.calls = {"checkouts.get"}] ELSE Respond(s, Undefined)

\* the continuation after `await polar.checkouts.get` resolved
AfterCheckout(s, checkout) == LET u == ClerkUserIdOf(checkout) IN IF u = Undefined THEN Respond(s, Undefined) ELSE IF s.type = "subscription.active" THEN [s EXCEPT !.clerkUserId = u, !.pc = "users.updateUserMetadata", !.payload = ActivePayload(s.subscription), !.calls = @ \cup {"users.updateUserMetadata"}] ELSE [s EXCEPT !.clerkUserId = u, !.pc = "users.getUser", !.calls = @ \cup {"users.getUser"}]

\* the continuation after `await clerkClient.users.getUser` resolved
AfterGetUser(s, publicMetadata) == [s EXCEPT !.currentMetadata = publicMetadata, !.pc = "users.updateUserMetadata", !.payload = RevokedPayload(publicMetadata, s.subscription), !.calls = @ \cup {"users.updateUserMetadata"}]

\* POST /webhook arrives: a new activation of the handler
Webhook(h, outcome, type, subscription, checkoutId) ==
    /\ wh[h].pc \in {"idle", "done"}
    /\ wh' = [wh EXCEPT ![h] = WebhookEntry(outcome, type, subscription, checkoutId)]
    /\ UNCHANGED <<metadata, api>>

\* polar.checkouts.get settles
CheckoutsGetSettles(h, ok) ==
    /\ wh[h].pc = "checkouts.get"
    /\ wh' = [wh EXCEPT ![h] = IF ok THEN AfterCheckout(wh[h], CheckoutStore[wh[h].checkoutId]) ELSE Respond(wh[h], "Error")]
    /\ UNCHANGED <<metadata, api>>

\* clerkClient.users.getUser settles (revoked branch)
GetUserSettles(h, ok) ==
    /\ wh[h].pc = "users.getUser"
    /\ wh' = [wh EXCEPT ![h] = IF ok THEN AfterGetUser(wh[h], metadata[wh[h].clerkUserId]) ELSE Respond(wh[h], "Error")]
    /\ UNCHANGED <<metadata, api>>

\* variant: the revoked branch reads and writes in one step
UpdateUserMetadataSettles_Atomic(h, ok, store) ==
    /\ wh[h].pc = "users.updateUserMetadata"
    /\ metadata' = IF ok THEN [metadata EXCEPT ![wh[h].clerkUserId] = UpdateUserMetadata(@, IF wh[h].type = "subscription.revoked" THEN RevokedPayload(@, wh[h].subscription) ELSE wh[h].payload, store)] ELSE metadata
    /\ wh' = [wh EXCEPT ![h] = Respond(wh[h], IF ok THEN Undefined ELSE "Error")]
    /\ UNCHANGED api

\* clerkClient.users.updateUserMetadata settles
UpdateUserMetadataSettles(h, ok, store) ==
    /\ wh[h].pc = "users.updateUserMetadata"
    /\ metadata' = IF ok THEN [metadata EXCEPT ![wh[h].clerkUserId] = UpdateUserMetadata(@, wh[h].payload, store)] ELSE metadata
    /\ wh' = [wh EXCEPT ![h] = Respond(wh[h], IF ok THEN Undefined ELSE "Error")]
    /\ UNCHANGED api

(* ------------------------------------------------ authenticated routes *)
\* what getAuth(req) yields as userId: an identity, or nothing
AuthValues == Users \cup {Undefined}

\* customerMetadata objects a caller may put in the body of /create-checkout
CallerMetadata == {EmptyObj, [clerk_user_id |-> "u1"], [clerk_user_id |-> "u2"], [ref |-> "r1"], [clerk_user_id |-> "u2", ref |-> "r1"]}

\* a property that may be missing: <<FALSE, {}>>, or <<TRUE, its value>>
OptionalMetadata == {<<FALSE, EmptyObj>>} \cup {<<TRUE, m>> : m \in CallerMetadata}

\* the parsed JSON body with the given properties
BodyOf(products, cm, sm) == Spread(Spread(IF products THEN [products |-> "p1"] ELSE EmptyObj, IF cm[1] THEN [customerMetadata |-> cm[2]] ELSE EmptyObj), IF sm[1] THEN [customer_metadata |-> sm[2]] ELSE EmptyObj)

\* parsed JSON bodies of /create-checkout: {} or any combination of a
\* product and the two spellings of the customer metadata
Bodies == {BodyOf(p, cm, sm) : p \in BOOLEAN, cm \in OptionalMetadata, sm \in OptionalMetadata}

\* req.body of /create-checkout: missing, or a parsed object
Requests == {[missing |-> TRUE, value |-> EmptyObj]} \cup {[missing |-> FALSE, value |-> b] : b \in Bodies}

\* variant: only a missing body is rejected
BodyMissingOrEmpty_OnlyMissing(body) == body.missing

\* !req.body || Object.keys(req.body).length === 0
BodyMissingOrEmpty(body) == body.missing \/ DOMAIN body.value = {}

\* req.body.customerMetadata || req.body.customer_metadata || {}
CallerSuppliedMetadata(b) == IF "customerMetadata" \in DOMAIN b THEN b.customerMetadata ELSE IF "customer_metadata" \in DOMAIN b THEN b.customer_metadata ELSE EmptyObj

\* delete o.k
Delete(o, k) == [j \in (DOMAIN o) \ {k} |-> o[j]]

\* variant: the caller's metadata is spread after the identity
CheckoutOptions_CallerWins(b, userId) == Delete(Spread(b, [successUrl |-> "FRONTEND_URL/?payment=success&checkout_id={CHECKOUT_ID}", customerMetadata |-> Spread([clerk_user_id |-> userId], CallerSuppliedMetadata(b))]), "customer_metadata")

\* the options handed to polar.checkouts.create
CheckoutOptions(b, userId) == Delete(Spread(b, [successUrl |-> "FRONTEND_URL/?payment=success&checkout_id={CHECKOUT_ID}", customerMetadata |-> Spread(CallerSuppliedMetadata(b), [clerk_user_id |-> userId])]), "customer_metadata")

IdleApi == [pc |-> "idle", route |-> Undefined, userId |-> Undefined, body |-> [missing |-> TRUE, value |-> EmptyObj], options |-> EmptyObj, customerId |-> Undefined, status |-> 0, calls |-> {}]

\* the response of a route handler
Reply(a, status) == [a EXCEPT !.pc = "done", !.status = status]

\* GET /test-auth
TestAuthEntry(userId) == LET a == [IdleApi EXCEPT !.route = "/test-auth", !.userId = userId] IN IF userId = Undefined THEN Reply(a, 401) ELSE Reply(a, 200)

\* GET /api/create-portal-session up to the first await
PortalEntry(userId) == LET a == [IdleApi EXCEPT !.route = "/api/create-portal-session", !.userId = userId] IN IF userId = Undefined THEN Reply(a, 401) ELSE [a EXCEPT !.pc = "users.getUser", !.calls = {"users.getUser"}]

\* the continuation after getUser resolved: user.publicMetadata?.customerId
PortalAfterGetUser(a, publicMetadata) == LET polarCustomerId == Prop(publicMetadata, "customerId") IN IF polarCustomerId = Undefined THEN Reply(a, 404) ELSE [a EXCEPT !.pc = "customerSessions.create", !.customerId = polarCustomerId, !.calls = @ \cup {"customerSessions.create"}]

\* variant: the identity is not checked
CreateCheckoutEntry_NoAuth(body, userId) == LET a == [IdleApi EXCEPT !.route = "/create-checkout", !.userId = userId, !.body = body] IN IF BodyMissingOrEmpty(body) THEN Reply(a, 400) ELSE [a EXCEPT !.pc = "checkouts.create", !.options = CheckoutOptions(body.value, userId), !.calls = {"checkouts.create"}]

\* POST /create-checkout up to the first await
CreateCheckoutEntry(body, userId) == LET a == [IdleApi EXCEPT !.route = "/create-checkout", !.userId = userId, !.body = body] IN IF BodyMissingOrEmpty(body) THEN Reply(a, 400) ELSE IF userId = Undefined THEN Reply(a, 401) ELSE [a EXCEPT !.pc = "checkouts.create", !.options = CheckoutOptions(body.value, userId), !.calls = {"checkouts.create"}]

\* how polar.checkouts.create settles: the session echoes the identity, the
\* session does not echo it, an SDKValidationError, any other error
CreateOutcomes == {"echo", "noecho", "SDKValidationError", "Error"}

\* the response after polar.checkouts.create settled
CreateCheckoutStatus(outcome) == CASE outcome = "echo" -> 200 [] outcome = "noecho" -> 201 [] outcome = "SDKValidationError" -> 422 [] OTHER -> 500

TestAuth(userId) ==
    /\ api.pc \in {"idle", "done"}
    /\ api' = TestAuthEntry(userId)
    /\ UNCHANGED <<metadata, wh>>

PortalSession(userId) ==
    /\ api.pc \in {"idle", "done"}
    /\ api' = PortalEntry(userId)
    /\ UNCHANGED <<metadata, wh>>

PortalGetUserSettles(ok) ==
    /\ api.pc = "users.getUser"
    /\ api' = IF ok THEN PortalAfterGetUser(api, metadata[api.userId]) ELSE Reply(api, 500)
    /\ UNCHANGED <<metadata, wh>>

PortalCreateSettles(ok) ==
    /\ api.pc = "customerSessions.create"
    /\ api' = Reply(api, IF ok THEN 200 ELSE 500)
    /\ UNCHANGED <<metadata, wh>>

CreateCheckout(body, userId) ==
    /\ api.pc \in {"idle", "done"}
    /\ api' = CreateCheckoutEntry(body, userId)
    /\ UNCHANGED <<metadata, wh>>

CheckoutsCreateSettles(outcome) ==
    /\ api.pc = "checkouts.create"
    /\ api' = Reply(api, CreateCheckoutStatus(outcome))
    /\ UNCHANGED <<metadata, wh>>

(* ---------------------------------------------------------------- system *)
\* metadata the identities hold before any delivery: no subscription fields,
\* possibly a key this program never writes
InitialMetadata == {EmptyObj, [theme |-> "dark"]}

\* metadata a user can hold once deliveries have run: none, an active
\* subscription, a revoked one
StoredMetadata == {EmptyObj, [subscriptionId |-> "s1", customerId |-> "c1", plan |-> "pro", status |-> "active"], [theme |-> "dark", subscriptionId |-> "s2", customerId |-> "c2", plan |-> "free", status |-> "revoked"]}

\* checkout reference of the deliveries that run concurrently: they all
\* resolve to the same identity
RacingCheckoutIds == {"k1"}

\* concurrent deliveries
Init ==
    /\ metadata = [u \in Users |-> EmptyObj]
    /\ wh = [h \in Slots |-> IdleSlot]
    /\ api = IdleApi

Next ==
    \/ \E h \in Slots, o \in ValidateOutcomes, t \in EventTypes, s \in Subscriptions, c \in RacingCheckoutIds \cup {Undefined} : Webhook(h, o, t, s, c)
    \/ \E h \in Slots, ok \in BOOLEAN : CheckoutsGetSettles(h, ok)
    \/ \E h \in Slots, ok \in BOOLEAN : GetUserSettles(h, ok)
    \/ \E h \in Slots, ok \in BOOLEAN, store \in StoreBehaviours : UpdateUserMetadataSettles(h, ok, store)

Spec == Init /\ [][Next]_vars

\* one delivery at a time, over every checkout; u1 starts with a key of its
\* own, u2 with or without one
InitSeq ==
    /\ metadata \in {m \in [Users -> InitialMetadata] : "theme" \in DOMAIN m["u1"]}
    /\ wh = [h \in Slots |-> IdleSlot]
    /\ api = IdleApi

NextSeq ==
    \/ \E o \in ValidateOutcomes, t \in EventTypes, s \in Subscriptions, c \in CheckoutIds \cup {Undefined} : Webhook(1, o, t, s, c)
    \/ \E ok \in BOOLEAN : CheckoutsGetSettles(1, ok)
    \/ \E ok \in BOOLEAN : GetUserSettles(1, ok)
    \/ \E ok \in BOOLEAN, store \in StoreBehaviours : UpdateUserMetadataSettles(1, ok, store)

SpecSeq == InitSeq /\ [][NextSeq]_vars

\* the authenticated routes, against any metadata the deliveries can leave
InitApi ==
    /\ metadata \in [Users -> StoredMetadata]
    /\ wh = [h \in Slots |-> IdleSlot]
    /\ api = IdleApi

NextApi ==
    \/ \E u \in AuthValues : TestAuth(u)
    \/ \E u \in AuthValues : PortalSession(u)
    \/ \E ok \in BOOLEAN : PortalGetUserSettles(ok)
    \/ \E ok \in BOOLEAN : PortalCreateSettles(ok)
    \/ \E b \in Requests, u \in AuthValues : CreateCheckout(b, u)
    \/ \E o \in CreateOutcomes : CheckoutsCreateSettles(o)

SpecApi == InitApi /\ [][NextApi]_vars

(* ------------------------------------------------------------ properties *)
\* slot h takes a step of its handler
Steps(h) == wh'[h] # wh[h]

\* slot h responds in this step
Responds(h) == Steps(h) /\ wh'[h].pc = "done"

\* the four subscription fields this program writes
SubscriptionKeys == {"subscriptionId", "customerId", "plan", "status"}

\* C1: a request whose signature verification fails is answered 403, has made
\* no call to the Payments Provider or to the user store, and leaves the
\* metadata of every identity as it was
C1_InvalidSignatureNoEffect == [][\A h \in Slots : (Steps(h) /\ wh'[h].error = "WebhookVerificationError") => (wh'[h].pc = "done" /\ wh'[h].status = 403 /\ wh'[h].calls = {} /\ metadata' = metadata)]_vars

C1_Witness == \E h \in Slots : wh[h].pc = "done" /\ wh[h].error = "WebhookVerificationError" /\ wh[h].status = 403 /\ "plan" \in DOMAIN metadata["u1"]

\* C2 as stated: once validateEvent has returned the event, the response is 202
C2_AlwaysAccepted == \A h \in Slots : (wh[h].pc = "done" /\ wh[h].type # Undefined) => wh[h].status = 202

\* C2 amended: once validateEvent has returned the event, the response is
\* 202 when no downstream call throws, and 500 when checkouts.get, getUser or
\* updateUserMetadata throws; a verified delivery is never answered otherwise
C2_AcceptedUnlessDownstreamFails == [][\A h \in Slots : (Responds(h) /\ wh'[h].type # Undefined) => IF wh'[h].error = Undefined THEN wh'[h].status = 202 ELSE (wh'[h].status = 500 /\ wh[h].pc \in {"checkouts.get", "users.getUser", "users.updateUserMetadata"})]_vars

C2_Witness == \E h \in Slots : wh[h].pc = "done" /\ wh[h].type = "subscription.revoked" /\ wh[h].error = "Error" /\ wh[h].status = 500 /\ "users.updateUserMetadata" \in wh[h].calls

\* the step in which slot h's updateUserMetadata of the given branch succeeds
UpdateSucceeds(h, type) == wh[h].pc = "users.updateUserMetadata" /\ wh[h].type = type /\ Responds(h) /\ wh'[h].error = Undefined

\* the keys of `before` outside the four subscription fields are in `after`
\* with the same values, and `after` has no further key
OtherKeysKept(before, after) == DOMAIN after = (DOMAIN before) \cup SubscriptionKeys /\ \A k \in (DOMAIN before) \ SubscriptionKeys : after[k] = before[k]

C5_RevokedMerge ==
    [][UpdateSucceeds(1, "subscription.revoked") => LET u == wh[1].clerkUserId sub == wh[1].subscription prior == metadata[u] IN
        /\ metadata'[u].subscriptionId = (IF "subscriptionId" \in DOMAIN prior THEN prior.subscriptionId ELSE sub.id)
        /\ metadata'[u].customerId = sub.customerId
        /\ metadata'[u].plan = "free"
        /\ metadata'[u].status = "revoked"
        /\ OtherKeysKept(prior, metadata'[u])
    ]_vars

C5_Witness == wh[1].pc = "done" /\ wh[1].type = "subscription.revoked" /\ wh[1].status = 202 /\ wh[1].clerkUserId = "u1" /\ metadata["u1"] = [theme |-> "dark", subscriptionId |-> "s1", customerId |-> "c2", plan |-> "free", status |-> "revoked"]

\* the identity named in the metadata of checkout session c, if any
NamedIdentity(c) == IF c = "k1" THEN "u1" ELSE IF c = "k3" THEN "u2" ELSE Undefined

\* C8: a verified delivery changes the metadata of no identity but the one
\* named in its resolved checkout session; a delivery of another event type,
\* one without checkout reference and one whose session names no identity
\* change no metadata, call no user store, and are answered 202
C8_Frame ==
    [][\A h \in Slots :
        /\ \A u \in Users : (Steps(h) /\ metadata'[u] # metadata[u]) => (wh[h].pc = "users.updateUserMetadata" /\ NamedIdentity(wh[h].checkoutId) = u)
        /\ (wh'[h].pc \notin {"idle", "done"}) => (wh'[h].type \in {"subscription.active", "subscription.revoked"} /\ wh'[h].checkoutId # Undefined)
        /\ (Responds(h) /\ wh[h].pc \in {"idle", "done"} /\ wh'[h].type # Undefined) => (wh'[h].status = 202 /\ wh'[h].calls = {} /\ metadata' = metadata)
        /\ (Steps(h) /\ wh[h].pc = "checkouts.get" /\ NamedIdentity(wh[h].checkoutId) = Undefined) => (wh'[h].pc = "done" /\ wh'[h].calls = {"checkouts.get"} /\ metadata' = metadata /\ (wh'[h].status = 202 \/ (wh'[h].status = 500 /\ wh'[h].error = "Error")))
    ]_vars

C8_Witness == wh[1].pc = "done" /\ wh[1].type = "subscription.active" /\ wh[1].status = 202 /\ wh[1].clerkUserId = Undefined /\ wh[1].calls = {"checkouts.get"} /\ "plan" \in DOMAIN metadata["u2"] /\ "plan" \notin DOMAIN metadata["u1"]

\* C9: the revoked branch writes what it computed from its own read: the
\* subscriptionId of that read (or the event's), plan "free", status
\* "revoked", whatever another delivery has written to the identity since
C9_WriteFromStaleRead ==
    [][\A h \in Slots : UpdateSucceeds(h, "subscription.revoked") => LET u == wh[h].clerkUserId read == wh[h].currentMetadata IN
        /\ metadata'[u].subscriptionId = (IF "subscriptionId" \in DOMAIN read THEN read.subscriptionId ELSE wh[h].subscription.id)
        /\ metadata'[u].plan = "free"
        /\ metadata'[u].status = "revoked"
    ]_vars

\* a revoked delivery has read subscriptionId s1, a subscription.active
\* delivery carrying s2 has written since, and the revoked write is pending
C9_Witness == \E h \in Slots : /\ wh[h].pc = "users.updateUserMetadata" /\ wh[h].type = "subscription.revoked" /\ wh[h].clerkUserId = "u1" /\ "subscriptionId" \in DOMAIN wh[h].currentMetadata /\ wh[h].currentMetadata.subscriptionId = "s1" /\ "subscriptionId" \in DOMAIN metadata["u1"] /\ metadata["u1"].subscriptionId = "s2" /\ metadata["u1"].status = "active" /\ \E g \in Slots \ {h} : wh[g].pc = "done" /\ wh[g].type = "subscription.active" /\ wh[g].status = 202

\* C10: plan and status of an identity are both unset, or "pro" and
\* "active", or "free" and "revoked"
C10_PlanStatusPairs == \A u \in Users : LET m == metadata[u] IN \/ ("plan" \notin DOMAIN m /\ "status" \notin DOMAIN m) \/ ("plan" \in DOMAIN m /\ "status" \in DOMAIN m /\ <<m.plan, m.status>> \in {<<"pro", "active">>, <<"free", "revoked">>})

C10_Witness == /\ "plan" \in DOMAIN metadata["u1"] /\ metadata["u1"].plan = "free" /\ metadata["u1"].status = "revoked" /\ \E h \in Slots : wh[h].pc = "users.updateUserMetadata" /\ wh[h].type = "subscription.revoked" /\ "plan" \in DOMAIN wh[h].currentMetadata /\ wh[h].currentMetadata.plan = "pro"

\* the route handlers that ask getAuth for the caller
AuthenticatedRoutes == {"/test-auth", "/api/create-portal-session", "/create-checkout"}

\* C3 as stated: a request without caller identity is answered 401 and has
\* made no provider call, whatever its body
C3_AlwaysUnauthorized == (api.pc = "done" /\ api.route \in AuthenticatedRoutes /\ api.userId = Undefined) => (api.status = 401 /\ api.calls = {})

\* C3 amended: a request without caller identity makes no provider call and
\* is answered 401, except that POST /create-checkout with a missing or
\* empty body is answered 400
C3_UnauthorizedOrBadRequest ==
    (api.route \in AuthenticatedRoutes /\ api.userId = Undefined) =>
        /\ api.pc = "done"
        /\ api.calls = {}
        /\ api.options = EmptyObj
        /\ api.status = (IF api.route = "/create-checkout" /\ (api.body.missing \/ DOMAIN api.body.value = {}) THEN 400 ELSE 401)

C3_Witness == api.pc = "done" /\ api.route = "/create-checkout" /\ api.userId = Undefined /\ ~api.body.missing /\ DOMAIN api.body.value = {"products"} /\ api.status = 401 /\ api.calls = {}

\* C6: every checkout creation sent for caller U carries
\* customerMetadata.clerk_user_id = U and no customer_metadata, and every
\* authenticated /create-checkout with a non-empty body sends one
C6_IdentityInjected ==
    /\ ("checkouts.create" \in api.calls) => (api.userId \in Users /\ "customerMetadata" \in DOMAIN api.options /\ "clerk_user_id" \in DOMAIN api.options.customerMetadata /\ api.options.customerMetadata.clerk_user_id = api.userId /\ "customer_metadata" \notin DOMAIN api.options)
    /\ (api.route = "/create-checkout" /\ api.userId \in Users /\ ~api.body.missing /\ DOMAIN api.body.value # {}) => ("checkouts.create" \in api.calls)

C6_Witness == /\ "checkouts.create" \in api.calls /\ api.userId = "u1" /\ "customerMetadata" \in DOMAIN api.body.value /\ api.body.value.customerMetadata = [clerk_user_id |-> "u2", ref |-> "r1"] /\ api.options.customerMetadata = [clerk_user_id |-> "u1", ref |-> "r1"]

\* C7: POST /create-checkout with a missing or empty body is answered 400 and
\* never calls checkout creation, with or without caller identity
C7_EmptyBodyRejected == (api.route = "/create-checkout" /\ (api.body.missing \/ DOMAIN api.body.value = {})) => (api.pc = "done" /\ api.status = 400 /\ api.calls = {} /\ api.options = EmptyObj)

C7_Witness == api.pc = "done" /\ api.route = "/create-checkout" /\ api.userId = "u1" /\ ~api.body.missing /\ api.body.value = EmptyObj /\ api.status = 400

====
